---------------------------- MODULE Spec2Model ----------------------------
(***************************************************************************)
(* rivian_analysis.py: the indicator computation (lines 61-85) and the     *)
(* "Quick Technical Insights" rules (lines 130-154) of the script.         *)
(*                                                                         *)
(* Numbers.  The script computes in IEEE binary64, and so does the model:  *)
(* a finite double is a sign, an odd mantissa of at most 53 bits and the   *)
(* exponent of its last bit (zero: the empty mantissa, with its sign), and *)
(* every +, -, * and / is the exact result rounded to the nearest double,  *)
(* ties to even.  Each product and each sum is rounded on its own (no      *)
(* fused multiply-add).  The exponent is not bounded: no quantity of the   *)
(* script comes near the overflow or the underflow of a double.  A         *)
(* mantissa is a little-endian sequence of limbs in base Base.             *)
(***************************************************************************)
EXTENDS Integers, Sequences, FiniteSets

LimbBits == 15
Base == 2^LimbBits
Precision == 53

Max2(p, q) == IF p >= q THEN p ELSE q
Min2(p, q) == IF p <= q THEN p ELSE q
Abs(n) == IF n < 0 THEN -n ELSE n
Sgn(n) == IF n < 0 THEN -1 ELSE IF n = 0 THEN 0 ELSE 1

(***************************************************************************)
(* Naturals of any size.  Every pass over the limbs splits its range in    *)
(* two and finishes the half that produces the carry before it starts the  *)
(* other one (the IF on the carry).                                        *)
(***************************************************************************)
RECURSIVE NatLimbs(_)
NatLimbs(n) == IF n = 0 THEN << >> ELSE <<n % Base>> \o NatLimbs(n \div Base)

Limb(a, i) == IF i <= Len(a) THEN a[i] ELSE 0

RECURSIVE TopNonZero(_, _, _)
TopNonZero(a, lo, hi) ==
    IF lo = hi THEN (IF a[lo] # 0 THEN lo ELSE 0)
    ELSE LET mid == (lo + hi) \div 2
             h == TopNonZero(a, mid + 1, hi)
         IN  IF h # 0 THEN h ELSE TopNonZero(a, lo, mid)

TrimZeros(a) == IF a = << >> THEN a ELSE SubSeq(a, 1, TopNonZero(a, 1, Len(a)))

\* limbs lo..hi of a*k + c and the carry out, for 0 <= k < Base
RECURSIVE MulRange(_, _, _, _, _)
MulRange(a, k, lo, hi, c) ==
    IF lo = hi
    THEN LET t == a[lo] * k + c IN [l |-> <<t % Base>>, c |-> t \div Base]
    ELSE LET mid == (lo + hi) \div 2
             L == MulRange(a, k, lo, mid, c)
             R == MulRange(a, k, mid + 1, hi, L.c)
         IN  IF L.c >= 0 THEN [l |-> L.l \o R.l, c |-> R.c] ELSE L

\* the limbs r.l followed by the limbs of the carry r.c
WithCarry(r) == r.l \o NatLimbs(r.c)

MagMulSmall(a, k) ==
    IF a = << >> \/ k = 0 THEN << >>
    ELSE IF k = 1 THEN a
    ELSE WithCarry(MulRange(a, k, 1, Len(a), 0))

\* limbs lo..hi of the quotient of a by k, from the top limb down, and the remainder,
\* for 0 < k <= Base
RECURSIVE DivRange(_, _, _, _, _)
DivRange(a, k, lo, hi, r) ==
    IF lo = hi
    THEN LET t == r * Base + a[lo] IN [l |-> <<t \div k>>, r |-> t % k]
    ELSE LET mid == (lo + hi) \div 2
             H == DivRange(a, k, mid + 1, hi, r)
             L == DivRange(a, k, lo, mid, H.r)
         IN  IF H.r >= 0 THEN [l |-> L.l \o H.l, r |-> L.r] ELSE H

Trimmed(d) == [q |-> TrimZeros(d.l), r |-> d.r]

MagDivMod(a, k) ==
    IF a = << >> THEN [q |-> << >>, r |-> 0]
    ELSE IF k = 1 THEN [q |-> a, r |-> 0]
    ELSE Trimmed(DivRange(a, k, 1, Len(a), 0))

RECURSIVE AddRange(_, _, _, _, _)
AddRange(a, b, lo, hi, c) ==
    IF lo = hi
    THEN LET t == Limb(a, lo) + Limb(b, lo) + c IN [l |-> <<t % Base>>, c |-> t \div Base]
    ELSE LET mid == (lo + hi) \div 2
             L == AddRange(a, b, lo, mid, c)
             R == AddRange(a, b, mid + 1, hi, L.c)
         IN  IF L.c >= 0 THEN [l |-> L.l \o R.l, c |-> R.c] ELSE L

MagAdd(a, b) ==
    IF a = << >> THEN b
    ELSE IF b = << >> THEN a
    ELSE WithCarry(AddRange(a, b, 1, Max2(Len(a), Len(b)), 0))

\* limbs lo..hi of a - b - c and the borrow out, for a >= b
RECURSIVE SubRange(_, _, _, _, _)
SubRange(a, b, lo, hi, c) ==
    IF lo = hi
    THEN LET t == Limb(a, lo) - Limb(b, lo) - c
         IN  IF t < 0 THEN [l |-> <<t + Base>>, c |-> 1] ELSE [l |-> <<t>>, c |-> 0]
    ELSE LET mid == (lo + hi) \div 2
             L == SubRange(a, b, lo, mid, c)
             R == SubRange(a, b, mid + 1, hi, L.c)
         IN  IF L.c >= 0 THEN [l |-> L.l \o R.l, c |-> R.c] ELSE L

MagSub(a, b) == IF b = << >> THEN a ELSE TrimZeros(SubRange(a, b, 1, Len(a), 0).l)

RECURSIVE CmpRange(_, _, _, _)
CmpRange(a, b, lo, hi) ==
    IF lo = hi THEN Sgn(a[lo] - b[lo])
    ELSE LET mid == (lo + hi) \div 2
             h == CmpRange(a, b, mid + 1, hi)
         IN  IF h # 0 THEN h ELSE CmpRange(a, b, lo, mid)

\* -1, 0 or 1 as a < b, a = b, a > b
MagCmp(a, b) ==
    IF Len(a) # Len(b) THEN Sgn(Len(a) - Len(b))
    ELSE IF a = << >> THEN 0 ELSE CmpRange(a, b, 1, Len(a))

\* a times Base^j
Shift(a, j) == IF a = << >> THEN a ELSE [i \in 1..j |-> 0] \o a

\* a times the limbs lo..hi of b
RECURSIVE MulLimbs(_, _, _, _)
MulLimbs(a, b, lo, hi) ==
    IF lo = hi THEN Shift(MagMulSmall(a, b[lo]), lo - 1)
    ELSE LET mid == (lo + hi) \div 2
         IN  MagAdd(MulLimbs(a, b, lo, mid), MulLimbs(a, b, mid + 1, hi))

MagMul(a, b) ==
    IF a = << >> \/ b = << >> THEN << >>
    ELSE IF b = <<1>> THEN a
    ELSE IF a = <<1>> THEN b
    ELSE IF Len(a) >= Len(b) THEN MulLimbs(a, b, 1, Len(b)) ELSE MulLimbs(b, a, 1, Len(a))

\* the number of bits of a limb, and of a natural
RECURSIVE LimbBitLen(_)
LimbBitLen(l) == IF l = 0 THEN 0 ELSE 1 + LimbBitLen(l \div 2)

BitLen(a) == IF a = << >> THEN 0 ELSE LimbBits * (Len(a) - 1) + LimbBitLen(a[Len(a)])

\* the number of zero bits at the low end of a limb, and of a natural, neither 0
RECURSIVE LimbTrailingZeros(_)
LimbTrailingZeros(l) == IF l % 2 = 1 THEN 0 ELSE 1 + LimbTrailingZeros(l \div 2)

TrailingZeros(a) ==
    LET i == CHOOSE j \in 1..Len(a) : a[j] # 0 /\ \A h \in 1..(j - 1) : a[h] = 0
    IN  LimbBits * (i - 1) + LimbTrailingZeros(a[i])

\* a * 2^n
ShiftLeft(a, n) == Shift(MagMulSmall(a, 2^(n % LimbBits)), n \div LimbBits)

\* the quotient d.q of the limbs above the j lowest of a, and whether a bit 1 is in
\* the remainder d.r or in the j lowest limbs
Dropped(a, j, d) == [q |-> d.q, lost |-> d.r # 0 \/ \E i \in 1..j : a[i] # 0]

\* a div 2^n, and whether a bit 1 was dropped
ShiftRight(a, n) ==
    IF n \div LimbBits >= Len(a) THEN [q |-> << >>, lost |-> a # << >>]
    ELSE Dropped(a, n \div LimbBits,
                 MagDivMod(SubSeq(a, n \div LimbBits + 1, Len(a)), 2^(n % LimbBits)))

\* one more bit of a quotient by b: q2 and r2 are the quotient and the remainder so
\* far, doubled
DivBit(q2, r2, b) ==
    IF MagCmp(r2, b) >= 0 THEN [q |-> MagAdd(q2, <<1>>), r |-> MagSub(r2, b)]
    ELSE [q |-> q2, r |-> r2]

\* st.q and st.r are a quotient and its remainder by b; n more bits of the quotient,
\* the first half of them before the second
RECURSIVE DivBits(_, _, _)
DivNext(half, b, n) == IF Len(half.q) >= 0 THEN DivBits(half, b, n) ELSE half

DivBits(st, b, n) ==
    IF n = 0 THEN st
    ELSE IF n = 1 THEN DivBit(MagMulSmall(st.q, 2), MagMulSmall(st.r, 2), b)
    ELSE DivNext(DivBits(st, b, n \div 2), b, n - n \div 2)

(***************************************************************************)
(* Doubles: NaN, the infinities, and the finite numbers s * m * 2^e with   *)
(* s the sign (1 or -1), m odd and below 2^53, or m = 0 (the empty         *)
(* sequence, e = 0): Fin(1, << >>, 0) is 0.0 and Fin(-1, << >>, 0) is -0.0.*)
(***************************************************************************)
NaN == [k |-> "nan"]
Inf(s) == [k |-> "inf", s |-> s]
Fin(s, m, e) == [k |-> "fin", s |-> s, m |-> m, e |-> e]

IsNaN(x) == x.k = "nan"
IsFin(x) == x.k = "fin"
IsInf(x) == x.k = "inf"
Defined(x) == ~IsNaN(x)
IsZero(x) == IsFin(x) /\ x.m = << >>

\* s * m * 2^e for m with t zero bits at its low end
Strip(s, m, e, t) == Fin(s, ShiftRight(m, t).q, e + t)

\* s * m * 2^e, exactly, for m of at most 53 bits
Canon(s, m, e) ==
    IF m = << >> THEN Fin(s, << >>, 0) ELSE Strip(s, m, e, TrailingZeros(m))

\* q, or the next natural when up
Bump(q, up) == IF up THEN MagAdd(q, <<1>>) ELSE q

\* h.q is a mantissa of 53 bits followed by the first bit dropped; the mantissa
\* rounded to nearest, ties to even, with more dropped below when h.lost or sticky
RoundBit(h, sticky) ==
    Bump(ShiftRight(h.q, 1).q,
         h.q[1] % 2 = 1 /\ (h.lost \/ sticky \/ (h.q[1] \div 2) % 2 = 1))

\* the double nearest to s * (m + tail) * 2^e, ties to even; tail is 0, or, when
\* sticky, some number strictly between 0 and 1 (m then has Precision + 2 bits or more)
Round(s, m, e, sticky) ==
    Canon(s,
          IF BitLen(m) <= Precision THEN m
          ELSE RoundBit(ShiftRight(m, BitLen(m) - Precision - 1), sticky),
          e + Max2(BitLen(m) - Precision, 0))

\* the double of an integer
Float(p) == Canon(IF p < 0 THEN -1 ELSE 1, NatLimbs(Abs(p)), 0)

\* the sign of |x| - |y| for finite x and y, neither zero
CmpMag(x, y) ==
    IF BitLen(x.m) + x.e # BitLen(y.m) + y.e
    THEN Sgn(BitLen(x.m) + x.e - BitLen(y.m) - y.e)
    ELSE MagCmp(ShiftLeft(x.m, x.e - Min2(x.e, y.e)), ShiftLeft(y.m, y.e - Min2(x.e, y.e)))

\* the sign of x - y for finite x and y
CmpFin(x, y) ==
    IF IsZero(x) THEN (IF IsZero(y) THEN 0 ELSE -y.s)
    ELSE IF IsZero(y) THEN x.s
    ELSE IF x.s # y.s THEN x.s
    ELSE x.s * CmpMag(x, y)

\* x > y as the doubles compare: false when either is NaN
RGt(x, y) ==
    IF IsNaN(x) \/ IsNaN(y) THEN FALSE
    ELSE IF IsInf(x) THEN x.s = 1 /\ ~(IsInf(y) /\ y.s = 1)
    ELSE IF IsInf(y) THEN y.s = -1
    ELSE CmpFin(x, y) = 1

RLt(x, y) == RGt(y, x)

REq(x, y) ==
    IF IsNaN(x) \/ IsNaN(y) THEN FALSE
    ELSE IF IsInf(x) \/ IsInf(y) THEN IsInf(x) /\ IsInf(y) /\ x.s = y.s
    ELSE CmpFin(x, y) = 0

EqInt(x, p) == REq(x, Float(p))

RNeg(x) == IF IsNaN(x) THEN x ELSE [x EXCEPT !.s = -x.s]

\* the double of the number u: u.s * (u.m + tail) * 2^u.e
Rounded(u) == Round(u.s, u.m, u.e, u.sticky)

\* sx * mx + sy * my, times 2^e
SumNear(sx, mx, sy, my, e) ==
    IF sx = sy THEN [s |-> sx, m |-> MagAdd(mx, my), e |-> e, sticky |-> FALSE]
    ELSE IF MagCmp(mx, my) = 0 THEN [s |-> 1, m |-> << >>, e |-> e, sticky |-> FALSE]
    ELSE IF MagCmp(mx, my) = 1 THEN [s |-> sx, m |-> MagSub(mx, my), e |-> e, sticky |-> FALSE]
    ELSE [s |-> sy, m |-> MagSub(my, mx), e |-> e, sticky |-> FALSE]

\* x + y with |y| below the last bit of m, which is x.m written in Precision + 3 bits
SumFar(x, y, m) ==
    [s |-> x.s, m |-> IF x.s = y.s THEN m ELSE MagSub(m, <<1>>),
     e |-> x.e + BitLen(x.m) - (Precision + 3), sticky |-> TRUE]

\* x + y before it is rounded, for finite x and y, neither zero
Sum(x, y) ==
    IF (BitLen(x.m) + x.e) - (BitLen(y.m) + y.e) > Precision + 8
    THEN SumFar(x, y, ShiftLeft(x.m, Precision + 3 - BitLen(x.m)))
    ELSE IF (BitLen(y.m) + y.e) - (BitLen(x.m) + x.e) > Precision + 8
    THEN SumFar(y, x, ShiftLeft(y.m, Precision + 3 - BitLen(y.m)))
    ELSE SumNear(x.s, ShiftLeft(x.m, x.e - Min2(x.e, y.e)),
                 y.s, ShiftLeft(y.m, y.e - Min2(x.e, y.e)), Min2(x.e, y.e))

RAdd(x, y) ==
    IF IsNaN(x) \/ IsNaN(y) THEN NaN
    ELSE IF IsInf(x) THEN (IF IsInf(y) /\ y.s # x.s THEN NaN ELSE x)
    ELSE IF IsInf(y) THEN y
    ELSE IF IsZero(x) /\ IsZero(y) THEN Fin(IF x.s = -1 /\ y.s = -1 THEN -1 ELSE 1, << >>, 0)
    ELSE IF IsZero(x) THEN y
    ELSE IF IsZero(y) THEN x
    ELSE Rounded(Sum(x, y))

RSub(x, y) == RAdd(x, RNeg(y))

RMul(x, y) ==
    IF IsNaN(x) \/ IsNaN(y) THEN NaN
    ELSE IF IsInf(x) \/ IsInf(y)
         THEN (IF IsZero(x) \/ IsZero(y) THEN NaN ELSE Inf(x.s * y.s))
    ELSE Round(x.s * y.s, MagMul(x.m, y.m), x.e + y.e, FALSE)

\* the first bit of the quotient of a by b, for a and b of the same length
FirstBit(a, b) ==
    IF MagCmp(a, b) >= 0 THEN [q |-> <<1>>, r |-> MagSub(a, b)] ELSE [q |-> << >>, r |-> a]

\* a / b * 2^e before it is rounded, for a and b of the same length: the quotient
\* to Precision + 3 bits after its first
Quotient(s, a, b, e) ==
    [s |-> s, e |-> e - (Precision + 3), d |-> DivBits(FirstBit(a, b), b, Precision + 3)]

QuotientRounded(u) == Round(u.s, u.d.q, u.e, u.d.r # << >>)

\* x / y for finite x and y, neither zero: a power of two divides exactly, any other
\* divisor after the mantissas are brought to the same length
DivFin(x, y) ==
    IF y.m = <<1>> THEN Fin(x.s * y.s, x.m, x.e - y.e)
    ELSE QuotientRounded(
             Quotient(x.s * y.s,
                      ShiftLeft(x.m, Max2(BitLen(y.m) - BitLen(x.m), 0)),
                      ShiftLeft(y.m, Max2(BitLen(x.m) - BitLen(y.m), 0)),
                      (x.e - Max2(BitLen(y.m) - BitLen(x.m), 0))
                          - (y.e - Max2(BitLen(x.m) - BitLen(y.m), 0))))

\* x / y as the doubles divide: x/0 is an infinity with the sign of x times the
\* sign of the zero, 0/0 is NaN
RDiv(x, y) ==
    IF IsNaN(x) \/ IsNaN(y) THEN NaN
    ELSE IF IsInf(x) THEN (IF IsInf(y) THEN NaN ELSE Inf(x.s * y.s))
    ELSE IF IsInf(y) THEN Fin(x.s * y.s, << >>, 0)
    ELSE IF IsZero(y) THEN (IF IsZero(x) THEN NaN ELSE Inf(x.s * y.s))
    ELSE IF IsZero(x) THEN Fin(x.s * y.s, << >>, 0)
    ELSE DivFin(x, y)

(***************************************************************************)
(* Program constants.                                                      *)
(***************************************************************************)
RsiCom == 13               \* ewm(com=13)
FastSpan == 12             \* ewm(span=12)
SlowSpan == 26             \* ewm(span=26)
SignalSpan == 9            \* ewm(span=9)
SMA50Window == 50          \* rolling(50)
SMA200Window == 200        \* rolling(200)
BBWindow == 20             \* rolling(20)
BBWidth == 2               \* rolling_std * 2
OverboughtLevel == 70      \* RSI_14 > 70
OversoldLevel == 30        \* RSI_14 < 30

(***************************************************************************)
(* The pandas operations of lines 66-85.  A column is the sequence of its  *)
(* rows; row 1 is the script's index 0.  Close is a sequence of integers,  *)
(* the other columns are sequences of doubles.                             *)
(***************************************************************************)
\* the column of integers c as doubles
Column(c) == [i \in 1..Len(c) |-> Float(c[i])]

\* Series.diff(): the first row has no predecessor
Diff(x) == [i \in 1..Len(x) |-> IF i = 1 THEN NaN ELSE RSub(x[i], x[i - 1])]

\* Series.clip(lower=0)
ClipLower0(x) ==
    [i \in 1..Len(x) |-> IF RLt(x[i], Float(0)) THEN Float(0) ELSE x[i]]

\* Series.clip(upper=0)
ClipUpper0(x) ==
    [i \in 1..Len(x) |-> IF RGt(x[i], Float(0)) THEN Float(0) ELSE x[i]]

Negate(x) == [i \in 1..Len(x) |-> RNeg(x[i])]

\* up = delta.clip(lower=0)
UpMoves(delta) == ClipLower0(delta)

DownMovesAbs(delta) ==
    [i \in 1..Len(delta) |-> IF RLt(delta[i], Float(0)) THEN RNeg(delta[i]) ELSE delta[i]]

\* down = -delta.clip(upper=0)
DownMoves(delta) == Negate(ClipUpper0(delta))

(***************************************************************************)
(* ewm(com, adjust=False).mean(): the loop of pandas' ewm with             *)
(* adjust=False, ignore_na=False, min_periods=0 and no times.  st is the   *)
(* loop's weighted and old_wt.  The average is NaN until the first         *)
(* observation, which seeds it.  From then on each row multiplies old_wt   *)
(* by 1 - alpha; an observation equal to the average leaves the average as *)
(* it is, any other one gives                                              *)
(*     (old_wt * weighted + alpha * cur) / (old_wt + alpha),               *)
(* and either sets old_wt back to 1.  A NaN after the first observation    *)
(* leaves the average unchanged.                                           *)
(***************************************************************************)
EwmUpdate(st, cur, alpha, old_wt) ==
    IF IsNaN(cur) THEN [weighted |-> st.weighted, old_wt |-> old_wt]
    ELSE IF REq(st.weighted, cur) THEN [weighted |-> st.weighted, old_wt |-> Float(1)]
    ELSE [weighted |-> RDiv(RAdd(RMul(old_wt, st.weighted), RMul(alpha, cur)),
                            RAdd(old_wt, alpha)),
          old_wt |-> Float(1)]

EwmStep(st, cur, alpha, old_wt_factor) ==
    IF IsNaN(st.weighted) THEN [weighted |-> cur, old_wt |-> st.old_wt]
    ELSE EwmUpdate(st, cur, alpha, RMul(st.old_wt, old_wt_factor))

\* the row w of the average, as the rows so far and the loop's state
EwmRow(w) ==
    IF w.weighted.k # "" /\ w.old_wt.k # "" THEN [out |-> <<w.weighted>>, last |-> w]
    ELSE [out |-> << >>, last |-> w]

EwmJoin(L, R) == [out |-> L.out \o R.out, last |-> R.last]

\* rows lo..hi of the average, entered with the loop's state after row lo - 1
RECURSIVE EwmRange(_, _, _, _, _, _)
EwmUpper(x, lo, hi, L, alpha, old_wt_factor) ==
    IF Len(L.out) > 0 THEN EwmJoin(L, EwmRange(x, lo, hi, L.last, alpha, old_wt_factor))
    ELSE L

EwmRange(x, lo, hi, st, alpha, old_wt_factor) ==
    IF lo = hi THEN EwmRow(EwmStep(st, x[lo], alpha, old_wt_factor))
    ELSE EwmUpper(x, (lo + hi) \div 2 + 1, hi,
                  EwmRange(x, lo, (lo + hi) \div 2, st, alpha, old_wt_factor),
                  alpha, old_wt_factor)

\* the loop with its constants: old_wt_factor = 1. - alpha
EwmLoop(x, alpha) ==
    IF x = << >> THEN << >>
    ELSE EwmRange(x, 1, Len(x), [weighted |-> NaN, old_wt |-> Float(1)],
                  alpha, RSub(Float(1), alpha)).out

\* alpha = 1. / (1. + com)
Ewm(x, com) == EwmLoop(x, RDiv(Float(1), RAdd(Float(1), com)))

\* com=c
EwmCom(x, c) == Ewm(x, Float(c))

\* span=s: com = (s - 1) / 2
EwmSpan(x, s) == Ewm(x, RDiv(Float(s - 1), Float(2)))

\* rs = ema_up / ema_down
RelativeStrength(eup, edown) == [i \in 1..Len(eup) |-> RDiv(eup[i], edown[i])]

\* 100 - (100 / (1 + rs))
Rsi(rs) ==
    [i \in 1..Len(rs) |->
        RSub(Float(100), RDiv(Float(100), RAdd(Float(1), rs[i])))]

MacdLineSwapped(fast, slow) == [i \in 1..Len(fast) |-> RSub(slow[i], fast[i])]

\* exp12 - exp26
MacdLine(fast, slow) == [i \in 1..Len(fast) |-> RSub(fast[i], slow[i])]

RECURSIVE SumRange(_, _, _)
SumRange(c, lo, hi) ==
    IF lo > hi THEN 0
    ELSE IF lo = hi THEN c[lo]
    ELSE LET mid == (lo + hi) \div 2 IN SumRange(c, lo, mid) + SumRange(c, mid + 1, hi)

\* the sum of the squares, a natural of any size
RECURSIVE SumSqRange(_, _, _)
SumSqRange(c, lo, hi) ==
    IF lo > hi THEN << >>
    ELSE IF lo = hi THEN MagMul(NatLimbs(Abs(c[lo])), NatLimbs(Abs(c[lo])))
    ELSE LET mid == (lo + hi) \div 2
         IN  MagAdd(SumSqRange(c, lo, mid), SumSqRange(c, mid + 1, hi))

RollingMeanMinPeriods1(c, w) ==
    [i \in 1..Len(c) |->
        RDiv(Float(SumRange(c, Max2(1, i - w + 1), i)), Float(Min2(i, w)))]

RollingMeanDropNa(c, w) ==
    [i \in 1..Max2(0, Len(c) - w + 1) |-> RDiv(Float(SumRange(c, i, i + w - 1)), Float(w))]

\* Series.rolling(w).mean() of a column of integers: NaN until w rows are in the
\* window, then the window's sum (exact, the rows being integers) over w
RollingMean(c, w) ==
    [i \in 1..Len(c) |->
        IF i < w THEN NaN ELSE RDiv(Float(SumRange(c, i - w + 1, i)), Float(w))]

\* Series.rolling(w).std(), the sample deviation (ddof=1), kept as the exact
\* variance num / den it is the root of
RollingStd(c, w) ==
    [i \in 1..Len(c) |->
        IF i < w THEN NaN
        ELSE LET s1 == NatLimbs(Abs(SumRange(c, i - w + 1, i)))
                 s2 == SumSqRange(c, i - w + 1, i)
             IN  [k |-> "sqrt", num |-> MagSub(MagMulSmall(s2, w), MagMul(s1, s1)),
                  den |-> w * (w - 1)]]

\* mean + std * m, kept as written: a + m * sqrt(num / den)
Band(mean, std, m) ==
    [i \in 1..Len(mean) |->
        IF IsNaN(mean[i]) \/ IsNaN(std[i]) THEN NaN
        ELSE [k |-> "surd", a |-> mean[i], m |-> m, num |-> std[i].num, den |-> std[i].den]]

(***************************************************************************)
(* Lines 66-85 on the Close column c.                                      *)
(***************************************************************************)
Indicators(c) ==
    LET close == Column(c)
        delta == Diff(close)
        up == UpMoves(delta)
        dn == DownMoves(delta)
        eup == EwmCom(up, RsiCom)
        edn == EwmCom(dn, RsiCom)
        rs == RelativeStrength(eup, edn)
        exp12 == EwmSpan(close, FastSpan)
        exp26 == EwmSpan(close, SlowSpan)
        macd == MacdLine(exp12, exp26)
        rolling_mean == RollingMean(c, BBWindow)
        rolling_std == RollingStd(c, BBWindow)
    IN  [down |-> dn, ema_up |-> eup, ema_down |-> edn,
         RSI_14 |-> Rsi(rs),
         MACD |-> macd,
         MACD_Signal |-> EwmSpan(macd, SignalSpan),
         SMA_50 |-> RollingMean(c, SMA50Window),
         SMA_200 |-> RollingMean(c, SMA200Window),
         BB_Upper |-> Band(rolling_mean, rolling_std, BBWidth),
         BB_Lower |-> Band(rolling_mean, rolling_std, -BBWidth)]

(***************************************************************************)
(* Lines 132-151 on the row latest.  The signals are named as the          *)
(* specification names the seven messages of the script.                   *)
(***************************************************************************)
TrendSignalNotStrict(latest) ==
    IF ~RLt(latest.Close, latest.SMA_50) /\ ~RLt(latest.SMA_50, latest.SMA_200)
    THEN <<"StrongBullish">>
    ELSE IF ~RLt(latest.Close, latest.SMA_50) THEN <<"ModerateBullish">>
    ELSE << >>

\* lines 135-138; a > b > c is (a > b) and (b > c)
TrendSignal(latest) ==
    IF RGt(latest.Close, latest.SMA_50) /\ RGt(latest.SMA_50, latest.SMA_200)
    THEN <<"StrongBullish">>
    ELSE IF RGt(latest.Close, latest.SMA_50) THEN <<"ModerateBullish">>
    ELSE << >>

\* lines 140-143
MomentumSignal(latest) ==
    IF RGt(latest.RSI_14, Float(OverboughtLevel)) THEN <<"Overbought">>
    ELSE IF RLt(latest.RSI_14, Float(OversoldLevel)) THEN <<"Oversold">>
    ELSE << >>

MacdSignalNotStrict(latest) ==
    IF ~RLt(latest.MACD, latest.MACD_Signal)
    THEN <<"BullishMomentum">> ELSE <<"BearishMomentum">>

\* lines 145-148
MacdSignal(latest) ==
    IF RGt(latest.MACD, latest.MACD_Signal)
    THEN <<"BullishMomentum">> ELSE <<"BearishMomentum">>

\* lines 150-151: the list is tested after the MACD message was appended
NeutralSignal(sofar) == IF sofar = << >> THEN <<"Neutral">> ELSE << >>

InsightsMacdFirst(latest) ==
    LET sofar == MacdSignal(latest) \o TrendSignal(latest) \o MomentumSignal(latest)
    IN  sofar \o NeutralSignal(sofar)

\* lines 133-151
Insights(latest) ==
    LET sofar == TrendSignal(latest) \o MomentumSignal(latest) \o MacdSignal(latest)
    IN  sofar \o NeutralSignal(sofar)

(***************************************************************************)
(* The script as a state machine.  pc is the statement the run is at; the  *)
(* other variables are the script's globals of the same names (the columns *)
(* of hist as one variable each), << >> until they are assigned.           *)
(***************************************************************************)
VARIABLES pc, Close, down, ema_up, ema_down, RSI_14, MACD, MACD_Signal,
          SMA_50, SMA_200, BB_Upper, BB_Lower, latest, insights

columns == <<down, ema_up, ema_down, RSI_14, MACD, MACD_Signal,
             SMA_50, SMA_200, BB_Upper, BB_Lower>>
vars == <<pc, Close, columns, latest, insights>>

\* bounds of the inputs
MaxLen == 5
MaxPrice == 2
MaxStep == 2
StartPrice == 10

\* the lengths of the long series: the first with a defined SMA_200, and a year of bars
WarmLen == SMA200Window
YearLen == SMA200Window + SMA50Window

Rising(n, b, s) == [i \in 1..n |-> b + s * (i - 1)]
Falling(n, b, s) == [i \in 1..n |-> b + s * (n - i)]
Flat(n, b) == [i \in 1..n |-> b]
ZigZag(n, b, s, ph) == [i \in 1..n |-> b + s * ((i + ph) % 2)]

RECURSIVE SeqsUpTo(_, _)
SeqsUpTo(S, n) ==
    IF n = 0 THEN {<< >>}
    ELSE LET shorter == SeqsUpTo(S, n - 1)
         IN  shorter \cup {Append(q, x) : q \in {r \in shorter : Len(r) = n - 1}, x \in S}

\* a series on which the rounding of the doubles decides the MACD rule: computed
\* without rounding, MACD and MACD_Signal are both -28 in the last row
RoundedSeries == {<<2129, 374, 3133>>}

\* the price series fetch_data can return: every short one, long ones of four shapes,
\* and the rounded one
PriceSeries ==
    SeqsUpTo(1..MaxPrice, MaxLen)
    \cup RoundedSeries
    \cup {Rising(YearLen, StartPrice, s) : s \in 1..MaxStep}
    \cup {Falling(WarmLen, StartPrice, s) : s \in 1..MaxStep}
    \cup {Flat(WarmLen, StartPrice)}
    \cup {ZigZag(WarmLen, StartPrice, s, ph) : s \in 1..MaxStep, ph \in 0..1}

Unset == << >>

Init ==
    /\ pc = "fetch"
    /\ Close = Unset
    /\ down = Unset /\ ema_up = Unset /\ ema_down = Unset
    /\ RSI_14 = Unset /\ MACD = Unset /\ MACD_Signal = Unset
    /\ SMA_50 = Unset /\ SMA_200 = Unset
    /\ BB_Upper = Unset /\ BB_Lower = Unset
    /\ latest = Unset
    /\ insights = Unset

\* line 51: hist is the downloaded series, or the empty frame when the download failed
FetchData ==
    /\ pc = "fetch"
    /\ \E c \in PriceSeries : Close' = c
    /\ pc' = "fetched"
    /\ UNCHANGED <<columns, latest, insights>>

\* lines 61-63: st.stop() ends the run
StopOnEmpty ==
    /\ pc = "fetched"
    /\ Close = << >>
    /\ pc' = "stopped"
    /\ UNCHANGED <<Close, columns, latest, insights>>

\* lines 66-85
CalculateIndicators ==
    /\ pc = "fetched"
    /\ Close # << >>
    /\ \E h \in {Indicators(Close)} :
           /\ down' = h.down
           /\ ema_up' = h.ema_up
           /\ ema_down' = h.ema_down
           /\ RSI_14' = h.RSI_14
           /\ MACD' = h.MACD
           /\ MACD_Signal' = h.MACD_Signal
           /\ SMA_50' = h.SMA_50
           /\ SMA_200' = h.SMA_200
           /\ BB_Upper' = h.BB_Upper
           /\ BB_Lower' = h.BB_Lower
    /\ pc' = "computed"
    /\ UNCHANGED <<Close, latest, insights>>

\* hist.iloc[-1]
LastRow ==
    LET n == Len(Close)
    IN  [Close |-> Float(Close[n]), RSI_14 |-> RSI_14[n],
         MACD |-> MACD[n], MACD_Signal |-> MACD_Signal[n],
         SMA_50 |-> SMA_50[n], SMA_200 |-> SMA_200[n]]

\* line 132
SelectLatest ==
    /\ pc = "computed"
    /\ latest' = LastRow
    /\ pc' = "latest"
    /\ UNCHANGED <<Close, columns, insights>>

\* lines 133-151: the rules read latest and nothing else
QuickInsights ==
    /\ pc = "latest"
    /\ insights' = Insights(latest)
    /\ pc' = "done"
    /\ UNCHANGED <<Close, columns, latest>>

Next == FetchData \/ StopOnEmpty \/ CalculateIndicators \/ SelectLatest \/ QuickInsights

Spec == Init /\ [][Next]_vars

(***************************************************************************)
(* The rules of lines 133-151 as a function of the row: QuickInsights on   *)
(* every row of a bounded set.  A row's SMA_200 may be undefined (fewer    *)
(* than 200 bars), with it SMA_50 (fewer than 50) and RSI_14 (0/0, or      *)
(* one bar); MACD and MACD_Signal are defined in every row the script      *)
(* computes.  The columns are not represented (Unset).                     *)
(***************************************************************************)
MaxLevel == 3

Levels == {Float(v) : v \in 1..MaxLevel}
RsiLevels ==
    {Float(v) : v \in {0, OversoldLevel - 1, OversoldLevel, 50,
                          OverboughtLevel, OverboughtLevel + 1, 100}}
MacdLevels == {Float(v) : v \in -1..1}

Rows ==
    {r \in [Close : Levels, SMA_50 : Levels \cup {NaN}, SMA_200 : Levels \cup {NaN},
            RSI_14 : RsiLevels \cup {NaN}, MACD : MacdLevels, MACD_Signal : MacdLevels] :
        IsNaN(r.SMA_50) => IsNaN(r.SMA_200)}

InitEval ==
    /\ pc = "latest"
    /\ latest \in Rows
    /\ Close = Unset
    /\ down = Unset /\ ema_up = Unset /\ ema_down = Unset
    /\ RSI_14 = Unset /\ MACD = Unset /\ MACD_Signal = Unset
    /\ SMA_50 = Unset /\ SMA_200 = Unset
    /\ BB_Upper = Unset /\ BB_Lower = Unset
    /\ insights = Unset

NextEval == QuickInsights

SpecEval == InitEval /\ [][NextEval]_vars

(***************************************************************************)
(* Properties.                                                             *)
(***************************************************************************)
Computed == pc \in {"computed", "latest", "done"}
Produced == pc = "done"
N == Len(Close)
Has(sig) == \E i \in 1..Len(insights) : insights[i] = sig
Count(sigs) == Cardinality({i \in 1..Len(insights) : insights[i] \in sigs})

FullyDefined(row) ==
    /\ Defined(row.RSI_14) /\ Defined(row.MACD) /\ Defined(row.MACD_Signal)
    /\ Defined(row.SMA_50) /\ Defined(row.SMA_200)

TrendFired == Has("StrongBullish") \/ Has("ModerateBullish")
ExtremeFired == Has("Overbought") \/ Has("Oversold")

IsFlat == \A i \in 1..N : Close[i] = Close[1]
StrictlyIncreasing == \A i \in 1..(N - 1) : Close[i] < Close[i + 1]
LinearRise == N >= 2 /\ Close[2] > Close[1]
              /\ \A i \in 1..(N - 1) : Close[i + 1] - Close[i] = Close[2] - Close[1]

\* C1: for a fully defined latest row the list has Neutral exactly when neither a
\* trend signal nor a momentum-extreme signal was produced
C1_NeutralIffNoTrendNoExtreme ==
    (Produced /\ FullyDefined(latest)) =>
        (Has("Neutral") <=> ~(TrendFired \/ ExtremeFired))

\* C2: a latest row with an undefined field gets no signal list
C2_UndefinedRowNoList ==
    (Produced /\ ~FullyDefined(latest)) => insights = << >>

AllColumnsHave(n) ==
    /\ Len(down) = n /\ Len(ema_up) = n /\ Len(ema_down) = n
    /\ Len(RSI_14) = n /\ Len(MACD) = n /\ Len(MACD_Signal) = n
    /\ Len(SMA_50) = n /\ Len(SMA_200) = n
    /\ Len(BB_Upper) = n /\ Len(BB_Lower) = n

C4_FlatRsi100 ==
    (Computed /\ IsFlat) =>
        /\ \A i \in 1..N : IsZero(MACD[i]) /\ IsZero(MACD_Signal[i])
        /\ \A i \in 2..N : EqInt(RSI_14[i], 100)

\* C5: with strictly increasing closes, down = 0, ema_down = 0 and rsi14 = 100 in
\* every row from the second on
C5_IncreasingRsi100 ==
    (Computed /\ StrictlyIncreasing) =>
        \A i \in 2..N :
            IsZero(down[i]) /\ IsZero(ema_down[i]) /\ EqInt(RSI_14[i], 100)

C5_Witness ==
    pc = "computed" /\ StrictlyIncreasing /\ N = YearLen /\ EqInt(RSI_14[N], 100)

\* C6: sma50 is undefined exactly in the first 49 rows, sma200 in the first 199,
\* bb_upper and bb_lower in the first 19
C6_WarmUpRows ==
    Computed =>
        \A i \in 1..N :
            /\ IsNaN(SMA_50[i]) <=> i < SMA50Window
            /\ IsNaN(SMA_200[i]) <=> i < SMA200Window
            /\ IsNaN(BB_Upper[i]) <=> i < BBWindow
            /\ IsNaN(BB_Lower[i]) <=> i < BBWindow

C6_Witness ==
    pc = "computed" /\ N > SMA200Window
    /\ IsNaN(SMA_200[SMA200Window - 1]) /\ Defined(SMA_200[SMA200Window])

\* C7: for a fully defined latest row, StrongBullish iff close > sma50 and
\* sma50 > sma200, ModerateBullish iff close > sma50 and not sma50 > sma200, no
\* trend signal iff close <= sma50, and never both trend signals
C7_TrendRule ==
    (Produced /\ FullyDefined(latest)) =>
        LET above == RGt(latest.Close, latest.SMA_50)
            stacked == RGt(latest.SMA_50, latest.SMA_200)
        IN  /\ Has("StrongBullish") <=> (above /\ stacked)
            /\ Has("ModerateBullish") <=> (above /\ ~stacked)
            /\ ~TrendFired <=> ~above
            /\ ~(Has("StrongBullish") /\ Has("ModerateBullish"))

C7_Witness ==
    /\ Produced /\ FullyDefined(latest) /\ Has("ModerateBullish")
    /\ REq(latest.SMA_50, latest.SMA_200)

\* C8: every list has exactly one of BullishMomentum and BearishMomentum, the
\* first iff macd > macd_signal, the second otherwise (macd = macd_signal too)
C8_OneMacdSignal ==
    Produced =>
        /\ Count({"BullishMomentum", "BearishMomentum"}) = 1
        /\ Has("BullishMomentum") <=> RGt(latest.MACD, latest.MACD_Signal)

C8_Witness ==
    Produced /\ REq(latest.MACD, latest.MACD_Signal) /\ Has("BearishMomentum")

Rank(sig) ==
    CASE sig \in {"StrongBullish", "ModerateBullish"} -> 1
      [] sig \in {"Overbought", "Oversold"} -> 2
      [] sig \in {"BullishMomentum", "BearishMomentum"} -> 3
      [] sig = "Neutral" -> 4

\* C9: in every list the signals are in the order trend, momentum-extreme, MACD,
\* Neutral, at most one of each; Overbought iff rsi14 > 70, Oversold iff rsi14 < 30
C9_RuleOrder ==
    Produced =>
        /\ \A i, j \in 1..Len(insights) : i < j => Rank(insights[i]) < Rank(insights[j])
        /\ Has("Overbought") <=> RGt(latest.RSI_14, Float(OverboughtLevel))
        /\ Has("Oversold") <=> RLt(latest.RSI_14, Float(OversoldLevel))

C9_Witness ==
    /\ Produced /\ Len(insights) = 3
    /\ Rank(insights[1]) = 1 /\ Rank(insights[2]) = 2 /\ Rank(insights[3]) = 3

\* C10: a 250-bar series rising by a constant step ends in a row with
\* sma50 > sma200, close > sma50, rsi14 = 100 and macd > macd_signal, and gets
\* exactly StrongBullish, Overbought, BullishMomentum
C10_LinearRise250 ==
    (N = YearLen /\ LinearRise) =>
        /\ Computed =>
            /\ RGt(SMA_50[N], SMA_200[N])
            /\ RGt(Float(Close[N]), SMA_50[N])
            /\ EqInt(RSI_14[N], 100)
            /\ RGt(MACD[N], MACD_Signal[N])
        /\ Produced => insights = <<"StrongBullish", "Overbought", "BullishMomentum">>

C10_Witness ==
    /\ Produced /\ N = YearLen /\ LinearRise
    /\ insights = <<"StrongBullish", "Overbought", "BullishMomentum">>
=============================================================================
